---- MODULE Spec2Model ----
(***************************************************************************)
(* Daikin IR command utilities: the key normalizer and the command-tree    *)
(* builder (generator.js), the mapping combiner (combine.js), the fan-only *)
(* temperature expander (generate_fan_only_temps.js) and the template key  *)
(* generator (generate_template.js).                                       *)
(*                                                                         *)
(* A JavaScript string is a sequence of one-character strings, so that     *)
(* split, join and template-literal concatenation are computed and not     *)
(* assumed.  A JavaScript object is the ordered sequence of its own        *)
(* enumerable properties, in the order Object.keys reports them.           *)
(***************************************************************************)
EXTENDS Integers, Sequences, FiniteSets, TLC

VARIABLES
    \* normalizeKey called on its own
    nKey, nResult, npc,
    \* transformJSON
    inputData, includeMetadata, tIdx, offCommands, regularCommands, skipped, output, gpc,
    \* what the calls of one process leave on the built-in objects, and the
    \* calls made so far with the result of the first
    ObjectProto, ObjectCtor, gCall, firstOutput,
    \* combineJSONFiles
    srcFiles, fileIdx, combined, totalKeys, warnings, errors, combinedFile, cpc,
    \* generate_fan_only_temps.js and generateTemplate
    fanOnlyFile, data, eTemperatures, eTemp, eIdx, eOutput, epc,
    \* the file as it was before the first run, and whether the script has
    \* been started a second time
    eOriginal, eRerun,
    tArgs, scaffolds, txtFiles, tTemperatures, tTemp, tKeys, tpc, tCalls, tPrev

normVars == <<nKey, nResult, npc>>
genVars == <<inputData, includeMetadata, tIdx, offCommands, regularCommands, skipped, output,
             gpc, ObjectProto, ObjectCtor, gCall, firstOutput>>
combVars == <<srcFiles, fileIdx, combined, totalKeys, warnings, errors, combinedFile, cpc>>
expVars == <<fanOnlyFile, data, eTemperatures, eTemp, eIdx, eOutput, epc, eOriginal, eRerun>>
tmplVars == <<tArgs, scaffolds, txtFiles, tTemperatures, tTemp, tKeys, tpc, tCalls, tPrev>>
vars == <<normVars, genVars, combVars, expVars, tmplVars>>

(***************************************************************************)
(* Strings                                                                 *)
(***************************************************************************)
Hyphen == "-"
Underscore == "_"

\* All strings over an alphabet of length at most n.
RECURSIVE StringsUpTo(_, _)
StringsUpTo(alphabet, n) ==
    IF n = 0 THEN {<<>>}
    ELSE LET shorter == StringsUpTo(alphabet, n - 1)
         IN  shorter \cup {Append(s, c) : s \in {x \in shorter : Len(x) = n - 1}, c \in alphabet}

\* String.prototype.split(sep) for a one-character separator: the segments
\* between the separators, empty segments included; "" splits into [""].
RECURSIVE SplitFrom(_, _, _, _, _)
SplitFrom(s, sep, i, cur, acc) ==
    IF i > Len(s) THEN Append(acc, cur)
    ELSE IF s[i] = sep THEN SplitFrom(s, sep, i + 1, <<>>, Append(acc, cur))
    ELSE SplitFrom(s, sep, i + 1, Append(cur, s[i]), acc)

Split(s, sep) == SplitFrom(s, sep, 1, <<>>, <<>>)

\* Array.prototype.join(sep): the elements with sep between neighbours.
RECURSIVE Join(_, _)
Join(parts, sep) ==
    IF Len(parts) = 0 THEN <<>>
    ELSE IF Len(parts) = 1 THEN parts[1]
    ELSE parts[1] \o sep \o Join(Tail(parts), sep)

\* Array.prototype.slice(from, -1) with a 0-based from: drops the last element.
SliceToLast(parts, from) == SubSeq(parts, from + 1, Len(parts) - 1)

(***************************************************************************)
(* generator.js: normalizeKey                                              *)
(***************************************************************************)
MinParts == 4

FanJoin_M1(parts) == Join(SliceToLast(parts, 2), <<Hyphen>>)
FanJoin(parts) == Join(SliceToLast(parts, 2), <<Underscore>>)

TooFewParts_M1(parts) == Len(parts) < MinParts - 1
TooFewParts(parts) == Len(parts) < MinParts

normalizeKey_M1(key) ==
    LET parts == Split(key, Hyphen)
    IN  IF TooFewParts(parts)
        THEN [status |-> "Error", operatingMode |-> <<>>, swingMode |-> <<>>,
              fanMode |-> <<>>, temperature |-> <<>>]
        ELSE [status |-> "ok",
              operatingMode |-> parts[1],
              swingMode |-> parts[3],
              fanMode |-> parts[2],
              temperature |-> parts[Len(parts)]]

normalizeKey(key) ==
    LET parts == Split(key, Hyphen)
    IN  IF TooFewParts(parts)
        THEN [status |-> "Error", operatingMode |-> <<>>, swingMode |-> <<>>,
              fanMode |-> <<>>, temperature |-> <<>>]
        ELSE [status |-> "ok",
              operatingMode |-> parts[1],
              swingMode |-> parts[2],
              fanMode |-> FanJoin(parts),
              temperature |-> parts[Len(parts)]]

NoResult == [status |-> "none", operatingMode |-> <<>>, swingMode |-> <<>>,
             fanMode |-> <<>>, temperature |-> <<>>]

NormIdle == nKey = <<>> /\ nResult = NoResult /\ npc = "idle"

\* normalizeKey(nKey): returns the four fields or throws the format Error.
NormalizeCall ==
    /\ npc = "call"
    /\ nResult' = normalizeKey(nKey)
    /\ npc' = IF normalizeKey(nKey).status = "Error" THEN "thrown" ELSE "returned"
    /\ UNCHANGED nKey

(***************************************************************************)
(* JavaScript objects                                                      *)
(***************************************************************************)
\* A value is a string or an object; an object is the sequence of its own
\* properties [k |-> name, v |-> value] in enumeration order.
Str(s) == [t |-> "string", v |-> s]
Obj(entries) == [t |-> "object", v |-> entries]
EmptyObject == <<>>

Digits == <<"0", "1", "2", "3", "4", "5", "6", "7", "8", "9">>
IsDigit(c) == \E d \in 1..10 : Digits[d] = c
DigitValue(c) == (CHOOSE d \in 1..10 : Digits[d] = c) - 1

\* Order of two canonical decimal numerals by value: the shorter is the
\* smaller, and numerals of one length compare digit by digit.
NumLess(a, b) ==
    \/ Len(a) < Len(b)
    \/ /\ Len(a) = Len(b)
       /\ \E i \in 1..Len(a) :
            /\ \A j \in 1..(i - 1) : a[j] = b[j]
            /\ DigitValue(a[i]) < DigitValue(b[i])

\* 2^32 - 2, the largest array index.
MaxArrayIndex == <<"4", "2", "9", "4", "9", "6", "7", "2", "9", "4">>

\* An integer-like property name (an "array index"): the canonical decimal
\* form of an integer in 0 .. 2^32 - 2.
IsArrayIndex(k) ==
    /\ Len(k) >= 1
    /\ \A i \in 1..Len(k) : IsDigit(k[i])
    /\ (Len(k) > 1 => k[1] # "0")
    /\ (k = MaxArrayIndex \/ NumLess(k, MaxArrayIndex))

HasOwn(o, k) == \E i \in 1..Len(o) : o[i].k = k
GetOwn(o, k) == o[CHOOSE i \in 1..Len(o) : o[i].k = k].v
Keys(o) == [i \in 1..Len(o) |-> o[i].k]
KeySet(o) == {o[i].k : i \in 1..Len(o)}

InsertAt(o, pos, e) == SubSeq(o, 1, pos - 1) \o <<e>> \o SubSeq(o, pos, Len(o))

\* o[k] = v on an ordinary object: an existing own property keeps its place;
\* a new integer-like name goes among the integer-like names in ascending
\* numeric order, ahead of every other name; any other new name goes last.
Put(o, k, v) ==
    IF HasOwn(o, k)
    THEN [i \in 1..Len(o) |-> IF o[i].k = k THEN [k |-> k, v |-> v] ELSE o[i]]
    ELSE IF IsArrayIndex(k)
    THEN LET before == {i \in 1..Len(o) :
                            IsArrayIndex(o[i].k) /\ NumLess(o[i].k, k)}
         IN  InsertAt(o, Cardinality(before) + 1, [k |-> k, v |-> v])
    ELSE Append(o, [k |-> k, v |-> v])

\* { ...a, ...b }: a's own properties, then b's, defined in that order.
RECURSIVE PutAll(_, _)
PutAll(o, src) == IF Len(src) = 0 THEN o
                  ELSE PutAll(Put(o, src[1].k, src[1].v), Tail(src))

ObjectSpread(a, b) == PutAll(PutAll(EmptyObject, a), b)

\* The built-in objects a property read can reach through the prototype
\* chain.  Every ordinary object inherits "constructor" (the global Object
\* function) and the accessor "__proto__" (which returns Object.prototype)
\* from Object.prototype, and every property a program adds to it.
ConstructorName == <<"c", "o", "n", "s", "t", "r", "u", "c", "t", "o", "r">>
ProtoName == <<"_", "_", "p", "r", "o", "t", "o", "_", "_">>

\* A heap: the own properties of the object under construction (reg), the
\* properties added to Object.prototype (proto) and to the Object function
\* (ctor).  A location is an object of the heap: a root and the path of own
\* property names from it.
HeapOf(reg, proto, ctor) == [reg |-> reg, proto |-> proto, ctor |-> ctor]
Loc(root, path) == [root |-> root, path |-> path]
NoLoc == [root |-> "undefined", path |-> <<>>]

\* The own properties of the object at a path of own property names.
RECURSIVE SubTree(_, _)
SubTree(o, path) ==
    IF Len(path) = 0 THEN o ELSE SubTree(GetOwn(o, path[1]).v, Tail(path))

\* The tree with own property k of the object at the path set to v.
RECURSIVE SetIn(_, _, _, _)
SetIn(o, path, k, v) ==
    IF Len(path) = 0 THEN Put(o, k, v)
    ELSE Put(o, path[1], Obj(SetIn(GetOwn(o, path[1]).v, Tail(path), k, v)))

HeapSet(h, loc, k, v) ==
    [h EXCEPT ![loc.root] = SetIn(h[loc.root], loc.path, k, v)]

\* The object the read loc[k] yields, NoLoc when it is undefined: an own
\* property first, then a property added to Object.prototype, then the
\* two built-in members.
Resolve(h, loc, k) ==
    IF HasOwn(SubTree(h[loc.root], loc.path), k) THEN Loc(loc.root, Append(loc.path, k))
    ELSE IF HasOwn(h.proto, k) THEN Loc("proto", <<k>>)
    ELSE IF k = ConstructorName THEN Loc("ctor", <<>>)
    ELSE IF k = ProtoName THEN Loc("proto", <<>>)
    ELSE NoLoc

\* if (!loc[k]) loc[k] = {}  for each name in turn, then the object reached:
\* a level is created as an own property only when the read is undefined.
RECURSIVE Descend(_, _, _)
Descend(h, loc, names) ==
    IF Len(names) = 0 THEN [heap |-> h, loc |-> loc]
    ELSE LET found == Resolve(h, loc, names[1])
         IN  IF found = NoLoc
             THEN Descend(HeapSet(h, loc, names[1], Obj(EmptyObject)),
                          Loc(loc.root, Append(loc.path, names[1])), Tail(names))
             ELSE Descend(h, found, Tail(names))

\* regularCommands[operatingMode][fanMode][swingMode][temperature] = value
\* with the three levels created on demand.
AssignNested(h, n, value) ==
    LET d == Descend(h, Loc("reg", <<>>), <<n.operatingMode, n.fanMode, n.swingMode>>)
    IN  HeapSet(d.heap, d.loc, n.temperature, value)

(***************************************************************************)
(* generator.js: transformJSON                                             *)
(***************************************************************************)
OffKey == <<"o", "f", "f">>
CommandsKey == <<"c", "o", "m", "m", "a", "n", "d", "s">>

Num(s) == [t |-> "number", v |-> s]
Arr(items) == [t |-> "array", v |-> items]
\* The text of an identifier-like literal, one character per element.
Daikin == <<"D", "a", "i", "k", "i", "n">>
ModelName == <<"f", "t", "k", "c", "2", "0", "t", "v", "m", "4">>
Base64 == <<"B", "a", "s", "e", "6", "4">>
Broadlink == <<"B", "r", "o", "a", "d", "l", "i", "n", "k">>
Quiet == <<"_", "q", "u", "i", "e", "t">>
PowerSaving == <<"_", "p", "o", "w", "e", "r", "_", "s", "a", "v", "i", "n", "g">>
Plus == <<"_", "p", "l", "u", "s">>
OperationModeList == <<(<<"d", "r", "y">>), (<<"c", "o", "o", "l">>),
                       (<<"f", "a", "n", "_", "o", "n", "l", "y">>)>>
BaseFanModes == <<(<<"a", "u", "t", "o">>), (<<"n", "i", "g", "h", "t">>),
                  (<<"l", "e", "v", "e", "l", "1">>), (<<"l", "e", "v", "e", "l", "2">>),
                  (<<"l", "e", "v", "e", "l", "3">>), (<<"l", "e", "v", "e", "l", "4">>),
                  (<<"l", "e", "v", "e", "l", "5">>)>>
FanModeList == BaseFanModes \o [i \in 1..Len(BaseFanModes) |-> BaseFanModes[i] \o Quiet]
BaseSwingModes == <<(<<"o", "n">>), (<<"c", "o", "m", "f", "o", "r", "t">>), OffKey>>
SwingModeList ==
    [i \in 1..9 |->
        BaseSwingModes[((i - 1) \div 3) + 1]
            \o (IF (i - 1) % 3 = 0 THEN <<>>
                ELSE IF (i - 1) % 3 = 1 THEN PowerSaving ELSE PowerSaving \o Plus)]
StrList(names) == Arr([i \in 1..Len(names) |-> Str(names[i])])

\* The metadata fields of the --full output, in the order of the literal.
Metadata ==
    <<[k |-> <<"m", "a", "n", "u", "f", "a", "c", "t", "u", "r", "e", "r">>, v |-> Str(Daikin)],
      [k |-> <<"s", "u", "p", "p", "o", "r", "t", "e", "d", "M", "o", "d", "e", "l", "s">>,
       v |-> StrList(<<ModelName>>)],
      [k |-> <<"c", "o", "m", "m", "a", "n", "d", "s", "E", "n", "c", "o", "d", "i", "n", "g">>,
       v |-> Str(Base64)],
      [k |-> <<"s", "u", "p", "p", "o", "r", "t", "e", "d", "C", "o", "n", "t", "r", "o", "l",
               "l", "e", "r">>, v |-> Str(Broadlink)],
      [k |-> <<"m", "i", "n", "T", "e", "m", "p", "e", "r", "a", "t", "u", "r", "e">>,
       v |-> Num(<<"1", "6">>)],
      [k |-> <<"m", "a", "x", "T", "e", "m", "p", "e", "r", "a", "t", "u", "r", "e">>,
       v |-> Num(<<"3", "2">>)],
      [k |-> <<"p", "r", "e", "c", "i", "s", "i", "o", "n">>, v |-> Num(<<"0", ".", "5">>)],
      [k |-> <<"o", "p", "e", "r", "a", "t", "i", "o", "n", "M", "o", "d", "e", "s">>,
       v |-> StrList(OperationModeList)],
      [k |-> <<"f", "a", "n", "M", "o", "d", "e", "s">>, v |-> StrList(FanModeList)],
      [k |-> <<"s", "w", "i", "n", "g", "M", "o", "d", "e", "s">>, v |-> StrList(SwingModeList)]>>

\* output as created at the top of transformJSON.
NewOutput(meta) ==
    PutAll(EmptyObject,
           (IF meta THEN Metadata ELSE <<>>) \o <<[k |-> CommandsKey, v |-> Obj(EmptyObject)]>>)

GenIdle ==
    /\ inputData = <<>> /\ includeMetadata = FALSE /\ tIdx = 0 /\ offCommands = EmptyObject
    /\ regularCommands = EmptyObject /\ ObjectProto = EmptyObject /\ ObjectCtor = EmptyObject
    /\ skipped = <<>> /\ output = EmptyObject /\ gpc = "idle"
    /\ gCall = 0 /\ firstOutput = EmptyObject

\* transformJSON entered in a fresh process: output created, both
\* accumulators empty, the built-in objects as the runtime made them.
GenStart(input, meta) ==
    /\ inputData = input /\ includeMetadata = meta /\ tIdx = 1 /\ offCommands = EmptyObject
    /\ regularCommands = EmptyObject /\ ObjectProto = EmptyObject /\ ObjectCtor = EmptyObject
    /\ skipped = <<>> /\ output = NewOutput(meta)
    /\ gpc = "loop"
    /\ gCall = 1 /\ firstOutput = EmptyObject

\* The body of `for (const [key, value] of Object.entries(inputData))` for
\* one entry, on the accumulators st = [off, heap, skipped].
EntryStep(st, e) ==
    IF e.k = OffKey
    THEN [st EXCEPT !.off = Put(st.off, OffKey, e.v)]
    ELSE IF normalizeKey(e.k).status = "Error"
    THEN [st EXCEPT !.skipped = Append(st.skipped, e.k)]
    ELSE [st EXCEPT !.heap = AssignNested(st.heap, normalizeKey(e.k), e.v)]

GenEntry_M1 ==
    /\ gpc = "loop"
    /\ tIdx <= Len(inputData)
    /\ LET st == EntryStep([off |-> offCommands,
                            heap |-> HeapOf(regularCommands, ObjectProto, ObjectCtor),
                            skipped |-> skipped], inputData[tIdx])
       IN  /\ offCommands' = st.off
           /\ regularCommands' = st.heap.reg
           /\ ObjectProto' = st.heap.proto
           /\ ObjectCtor' = st.heap.ctor
           /\ skipped' = st.skipped
           /\ tIdx' = IF Len(st.skipped) > Len(skipped) THEN Len(inputData) + 1 ELSE tIdx + 1
    /\ UNCHANGED <<inputData, includeMetadata, output, gpc, gCall, firstOutput>>

\* One iteration of the loop.  The reads regularCommands[operatingMode],
\* ...[fanMode], ...[swingMode] go through the prototype chain: where one
\* finds an inherited object no own property is created and the
\* assignments below it land on the inherited object.
GenEntry ==
    /\ gpc = "loop"
    /\ tIdx <= Len(inputData)
    /\ LET st == EntryStep([off |-> offCommands,
                            heap |-> HeapOf(regularCommands, ObjectProto, ObjectCtor),
                            skipped |-> skipped], inputData[tIdx])
       IN  /\ offCommands' = st.off
           /\ regularCommands' = st.heap.reg
           /\ ObjectProto' = st.heap.proto
           /\ ObjectCtor' = st.heap.ctor
           /\ skipped' = st.skipped
    /\ tIdx' = tIdx + 1
    /\ UNCHANGED <<inputData, includeMetadata, output, gpc, gCall, firstOutput>>

\* output.commands = { ...offCommands, ...regularCommands }; return output.
GenAssemble ==
    /\ gpc = "loop"
    /\ tIdx > Len(inputData)
    /\ output' = Put(output, CommandsKey, Obj(ObjectSpread(offCommands, regularCommands)))
    /\ gpc' = "done"
    /\ UNCHANGED <<inputData, includeMetadata, tIdx, offCommands, regularCommands, skipped,
                   ObjectProto, ObjectCtor, gCall, firstOutput>>

\* The caller keeps the result and calls transformJSON again in the same
\* process with the same arguments: fresh locals, the built-in objects as
\* the first call left them.
GenCallAgain ==
    /\ gpc = "done"
    /\ gCall = 1
    /\ firstOutput' = output
    /\ gCall' = 2
    /\ tIdx' = 1
    /\ offCommands' = EmptyObject
    /\ regularCommands' = EmptyObject
    /\ skipped' = <<>>
    /\ output' = NewOutput(includeMetadata)
    /\ gpc' = "loop"
    /\ UNCHANGED <<inputData, includeMetadata, ObjectProto, ObjectCtor>>

\* transformJSON as a function of its arguments and of the built-in objects
\* it starts from: the loop folded over the entries, then the assembly.
RECURSIVE FoldEntries(_, _, _)
FoldEntries(st, entries, i) ==
    IF i > Len(entries) THEN st ELSE FoldEntries(EntryStep(st, entries[i]), entries, i + 1)

transformJSON(input, meta, proto, ctor) ==
    LET st == FoldEntries([off |-> EmptyObject,
                           heap |-> HeapOf(EmptyObject, proto, ctor),
                           skipped |-> <<>>], input, 1)
    IN  [output |-> Put(NewOutput(meta), CommandsKey,
                        Obj(ObjectSpread(st.off, st.heap.reg))),
         proto |-> st.heap.proto, ctor |-> st.heap.ctor, skipped |-> st.skipped]

(***************************************************************************)
(* combine.js: combineJSONFiles                                            *)
(***************************************************************************)
HasOwnPropertyName == <<"h", "a", "s", "O", "w", "n", "P", "r", "o", "p", "e", "r", "t", "y">>

\* A source file: parsed = FALSE when readFileSync or JSON.parse throws,
\* otherwise entries are the parsed object's properties in Object.keys order.
UnreadableFile == [parsed |-> FALSE, entries |-> <<>>]
JsonFile(entries) == [parsed |-> TRUE, entries |-> entries]

\* combined.hasOwnProperty(key): the method is found on Object.prototype
\* unless combined has an own property of that name, whose value (a command
\* string) is not callable: the call then throws a TypeError.
HasOwnPropertyThrows(o) == HasOwn(o, HasOwnPropertyName)

\* combined[key] = value for a string value: the name __proto__ reaches the
\* accessor of Object.prototype, whose setter ignores a non-object value and
\* creates no own property; every other name becomes an own property.
SetProperty(o, k, v) == IF k = ProtoName THEN o ELSE Put(o, k, v)

\* The body of `for (const key of keys)` over the entries from position i,
\* stopping at the first throw.
RECURSIVE MergeKeys(_, _, _, _)
MergeKeys(st, entries, i, file) ==
    IF i > Len(entries) THEN st
    ELSE IF HasOwnPropertyThrows(st.combined) THEN [st EXCEPT !.threw = TRUE]
    ELSE LET key == entries[i].k
             warned == IF HasOwn(st.combined, key)
                       THEN Append(st.warnings, [key |-> key, file |-> file])
                       ELSE st.warnings
         IN  MergeKeys([combined |-> SetProperty(st.combined, key, entries[i].v),
                        warnings |-> warned, threw |-> FALSE],
                       entries, i + 1, file)

\* The try block for one file: what it leaves in combined, warnings and
\* totalKeys, and whether the catch clause reported the file.
MergeFile(comb, warns, total, f, file) ==
    IF ~f.parsed
    THEN [combined |-> comb, warnings |-> warns, totalKeys |-> total, failed |-> TRUE]
    ELSE LET st == MergeKeys([combined |-> comb, warnings |-> warns, threw |-> FALSE],
                             f.entries, 1, file)
         IN  [combined |-> st.combined, warnings |-> st.warnings,
              totalKeys |-> IF st.threw THEN total ELSE total + Len(f.entries),
              failed |-> st.threw]

CombIdle ==
    /\ srcFiles = <<>> /\ fileIdx = 0 /\ combined = EmptyObject /\ totalKeys = 0
    /\ warnings = <<>> /\ errors = <<>> /\ combinedFile = EmptyObject /\ cpc = "idle"

\* combineJSONFiles entered with the .json files of srcDir listed.
CombStart(files) ==
    /\ srcFiles = files /\ fileIdx = 0 /\ combined = EmptyObject /\ totalKeys = 0
    /\ warnings = <<>> /\ errors = <<>> /\ combinedFile = EmptyObject /\ cpc = "start"

\* No .json file in the directory: process.exit(1).
CombineNoFiles ==
    /\ cpc = "start"
    /\ Len(srcFiles) = 0
    /\ cpc' = "exit1"
    /\ UNCHANGED <<srcFiles, fileIdx, combined, totalKeys, warnings, errors, combinedFile>>

CombineBegin ==
    /\ cpc = "start"
    /\ Len(srcFiles) > 0
    /\ fileIdx' = 1
    /\ cpc' = "loop"
    /\ UNCHANGED <<srcFiles, combined, totalKeys, warnings, errors, combinedFile>>

\* The iteration without the inner try/catch: an unreadable file ends the run.
CombineFile_M1 ==
    /\ cpc = "loop"
    /\ fileIdx <= Len(srcFiles)
    /\ LET r == MergeFile(combined, warnings, totalKeys, srcFiles[fileIdx], fileIdx)
       IN  /\ combined' = r.combined
           /\ warnings' = r.warnings
           /\ totalKeys' = r.totalKeys
           /\ errors' = IF r.failed THEN Append(errors, fileIdx) ELSE errors
           /\ cpc' = IF r.failed THEN "failed" ELSE cpc
    /\ fileIdx' = fileIdx + 1
    /\ UNCHANGED <<srcFiles, combinedFile>>

\* One iteration of `for (const file of jsonFiles)`.
CombineFile ==
    /\ cpc = "loop"
    /\ fileIdx <= Len(srcFiles)
    /\ LET r == MergeFile(combined, warnings, totalKeys, srcFiles[fileIdx], fileIdx)
       IN  /\ combined' = r.combined
           /\ warnings' = r.warnings
           /\ totalKeys' = r.totalKeys
           /\ errors' = IF r.failed THEN Append(errors, fileIdx) ELSE errors
    /\ fileIdx' = fileIdx + 1
    /\ UNCHANGED <<srcFiles, combinedFile, cpc>>

\* fs.writeFileSync(outputPath, JSON.stringify(combined)); return combined.
CombineWrite ==
    /\ cpc = "loop"
    /\ fileIdx > Len(srcFiles)
    /\ combinedFile' = combined
    /\ cpc' = "done"
    /\ UNCHANGED <<srcFiles, fileIdx, combined, totalKeys, warnings, errors>>

(***************************************************************************)
(* Temperatures.  Both scripts run `for (let temp = 16; temp <= 32;        *)
(* temp += 0.5)`.  Every value 16 + k * 0.5 is exactly representable as a  *)
(* double, so the loop variable is kept as an integer number of halves.    *)
(***************************************************************************)
MinTemperature == 16
MaxTemperature == 32
HalvesPerDegree == 2

RECURSIVE DecimalDigits(_)
DecimalDigits(n) == IF n < 10 THEN <<Digits[n + 1]>>
                    ELSE DecimalDigits(n \div 10) \o <<Digits[(n % 10) + 1]>>

\* temp % 1 === 0
IsWhole(h) == h % HalvesPerDegree = 0

\* Number.prototype.toString(), also what a template literal renders:
\* the shortest decimal form, with no fraction for a whole number.
NumberToString(h) ==
    IF IsWhole(h) THEN DecimalDigits(h \div HalvesPerDegree)
    ELSE DecimalDigits(h \div HalvesPerDegree) \o <<".", "5">>

\* Number.prototype.toFixed(1): always one decimal.
ToFixed1(h) ==
    DecimalDigits(h \div HalvesPerDegree) \o <<".">>
        \o DecimalDigits(((h % HalvesPerDegree) * 10) \div HalvesPerDegree)

\* temp <= 32
TempInRange_M1(h) == h < MaxTemperature * HalvesPerDegree
TempInRange(h) == h <= MaxTemperature * HalvesPerDegree

(***************************************************************************)
(* generate_fan_only_temps.js                                              *)
(***************************************************************************)
\* `${baseKey}-${temp}`
ExpandedKey(baseKey, temp) == baseKey \o <<Hyphen>> \o NumberToString(temp)

\* temperatures.forEach(temp => { output[newKey] = value })
RECURSIVE ExpandEntry(_, _, _, _)
ExpandEntry(out, e, temps, i) ==
    IF i > Len(temps) THEN out
    ELSE ExpandEntry(Put(out, ExpandedKey(e.k, temps[i]), e.v), e, temps, i + 1)

ExpIdle ==
    /\ fanOnlyFile = EmptyObject /\ data = EmptyObject /\ eTemperatures = <<>>
    /\ eTemp = 0 /\ eIdx = 0 /\ eOutput = EmptyObject /\ epc = "idle"
    /\ eOriginal = EmptyObject /\ eRerun = FALSE

ExpStart(file) ==
    /\ fanOnlyFile = file /\ data = EmptyObject /\ eTemperatures = <<>>
    /\ eTemp = 0 /\ eIdx = 0 /\ eOutput = EmptyObject /\ epc = "ready"
    /\ eOriginal = file /\ eRerun = FALSE

\* data = JSON.parse(fs.readFileSync(inputFile)); temperatures = []; temp = 16
\* The scripts are synchronous programs started one at a time: neither
\* starts while the other is running.
ExpandRead ==
    /\ epc = "ready"
    /\ tpc # "temps"
    /\ data' = fanOnlyFile
    /\ eTemperatures' = <<>>
    /\ eTemp' = MinTemperature * HalvesPerDegree
    /\ epc' = "temps"
    /\ UNCHANGED <<fanOnlyFile, eIdx, eOutput, eOriginal, eRerun>>

\* One iteration of the temperature loop: temperatures.push(temp); temp += 0.5
ExpandTempLoop ==
    /\ epc = "temps"
    /\ TempInRange(eTemp)
    /\ eTemperatures' = Append(eTemperatures, eTemp)
    /\ eTemp' = eTemp + 1
    /\ UNCHANGED <<fanOnlyFile, data, eIdx, eOutput, epc, eOriginal, eRerun>>

\* The loop condition fails: output = {} and the loop over the entries starts.
ExpandTempDone ==
    /\ epc = "temps"
    /\ ~TempInRange(eTemp)
    /\ eOutput' = EmptyObject
    /\ eIdx' = 1
    /\ epc' = "expand"
    /\ UNCHANGED <<fanOnlyFile, data, eTemperatures, eTemp, eOriginal, eRerun>>

\* One iteration of `for (const [key, value] of Object.entries(data))`.
ExpandBaseKey ==
    /\ epc = "expand"
    /\ eIdx <= Len(data)
    /\ eOutput' = ExpandEntry(eOutput, data[eIdx], eTemperatures, 1)
    /\ eIdx' = eIdx + 1
    /\ UNCHANGED <<fanOnlyFile, data, eTemperatures, eTemp, epc, eOriginal, eRerun>>

ExpandWrite_M1 ==
    /\ epc = "expand"
    /\ eIdx > Len(data)
    /\ epc' = "done"
    /\ UNCHANGED <<fanOnlyFile, data, eTemperatures, eTemp, eIdx, eOutput, eOriginal, eRerun>>

\* fs.writeFileSync(outputFile, JSON.stringify(output)): the input file is replaced.
ExpandWrite ==
    /\ epc = "expand"
    /\ eIdx > Len(data)
    /\ fanOnlyFile' = eOutput
    /\ epc' = "done"
    /\ UNCHANGED <<data, eTemperatures, eTemp, eIdx, eOutput, eOriginal, eRerun>>

\* node generate_fan_only_temps.js started once more: a new process, the
\* file as the first run left it.
ExpandRunAgain ==
    /\ epc = "done"
    /\ ~eRerun
    /\ eRerun' = TRUE
    /\ data' = EmptyObject
    /\ eTemperatures' = <<>>
    /\ eTemp' = 0
    /\ eIdx' = 0
    /\ eOutput' = EmptyObject
    /\ epc' = "ready"
    /\ UNCHANGED <<fanOnlyFile, eOriginal>>

(***************************************************************************)
(* generate_template.js: generateTemplate                                  *)
(***************************************************************************)
Dot == "."
JsonExt == <<".", "j", "s", "o", "n">>
KeyPrefix == <<"-", " ">>

\* `${operatingMode}.${swingMode}.${fanMode}.json`
JsonFilename(a) == Join(<<a.operatingMode, a.swingMode, a.fanMode>>, <<Dot>>) \o JsonExt

\* temp % 1 === 0 ? temp.toString() : temp.toFixed(1)
FormattedTemp_M1(h) == ToFixed1(h)
FormattedTemp(h) == IF IsWhole(h) THEN NumberToString(h) ELSE ToFixed1(h)

TemplateKey_M1(a, temp) ==
    KeyPrefix \o Join(<<a.operatingMode, a.fanMode, a.swingMode, temp>>, <<Hyphen>>)

\* `- ${operatingMode}-${swingMode}-${fanMode}-${temp}`
TemplateKey(a, temp) ==
    KeyPrefix \o Join(<<a.operatingMode, a.swingMode, a.fanMode, temp>>, <<Hyphen>>)

NoArgs == [operatingMode |-> <<>>, swingMode |-> <<>>, fanMode |-> <<>>]

TxtExt == <<".", "t", "x", "t">>
Slash == "/"

\* path.join(operatingMode, `${operatingMode}.${swingMode}.${fanMode}.txt`)
TxtPath(a) ==
    a.operatingMode \o <<Slash>>
        \o Join(<<a.operatingMode, a.swingMode, a.fanMode>>, <<Dot>>) \o TxtExt

\* scaffolds: the .json files of the src directory, by file name;
\* txtFiles: the template text files, by path, each a list of lines.
\* tCalls: the calls of generateTemplate so far; tPrev: the arguments and the
\* outcome of the call before the current one.
NoCall == [args |-> NoArgs, pc |-> "idle"]

TmplIdle ==
    /\ tArgs = NoArgs /\ scaffolds = EmptyObject /\ txtFiles = EmptyObject
    /\ tTemperatures = <<>> /\ tTemp = 0 /\ tKeys = <<>> /\ tpc = "idle"
    /\ tCalls = 0 /\ tPrev = NoCall

TmplStart(a, existing) ==
    /\ tArgs = a /\ scaffolds = existing /\ txtFiles = EmptyObject
    /\ tTemperatures = <<>> /\ tTemp = 0 /\ tKeys = <<>> /\ tpc = "ready"
    /\ tCalls = 1 /\ tPrev = NoCall

TemplateRefuse_M1 ==
    /\ tpc = "ready"
    /\ epc \notin {"temps", "expand"}
    /\ HasOwn(scaffolds, JsonFilename(tArgs))
    /\ scaffolds' = Put(scaffolds, JsonFilename(tArgs), Obj(EmptyObject))
    /\ tpc' = "refused"
    /\ UNCHANGED <<tArgs, txtFiles, tTemperatures, tTemp, tKeys, tCalls, tPrev>>

\* fs.existsSync(jsonPath): the guard reports and returns null.
TemplateRefuse ==
    /\ tpc = "ready"
    /\ epc \notin {"temps", "expand"}
    /\ HasOwn(scaffolds, JsonFilename(tArgs))
    /\ tpc' = "refused"
    /\ UNCHANGED <<tArgs, scaffolds, txtFiles, tTemperatures, tTemp, tKeys, tCalls, tPrev>>

\* No scaffold file in the way: temperatures = []; temp = 16
TemplateBegin ==
    /\ tpc = "ready"
    /\ epc \notin {"temps", "expand"}
    /\ ~HasOwn(scaffolds, JsonFilename(tArgs))
    /\ tTemperatures' = <<>>
    /\ tTemp' = MinTemperature * HalvesPerDegree
    /\ tpc' = "temps"
    /\ UNCHANGED <<tArgs, scaffolds, txtFiles, tKeys, tCalls, tPrev>>

\* One iteration: temperatures.push(formattedTemp); temp += 0.5
TemplateTempLoop ==
    /\ tpc = "temps"
    /\ TempInRange(tTemp)
    /\ tTemperatures' = Append(tTemperatures, FormattedTemp(tTemp))
    /\ tTemp' = tTemp + 1
    /\ UNCHANGED <<tArgs, scaffolds, txtFiles, tKeys, tpc, tCalls, tPrev>>

\* keys = temperatures.map(...); the text file and the empty scaffold are
\* written and { keys, count, ... } is returned.
TemplateKeys ==
    /\ tpc = "temps"
    /\ ~TempInRange(tTemp)
    /\ LET keys == [i \in 1..Len(tTemperatures) |-> TemplateKey(tArgs, tTemperatures[i])]
       IN  /\ tKeys' = keys
           /\ txtFiles' = Put(txtFiles, TxtPath(tArgs), keys)
    /\ scaffolds' = Put(scaffolds, JsonFilename(tArgs), Obj(EmptyObject))
    /\ tpc' = "returned"
    /\ UNCHANGED <<tArgs, tTemperatures, tTemp, tCalls, tPrev>>

\* The calls of generateTemplate one process or one session makes, and the
\* keys the user fills in at a time.
MaxTemplateCalls == 2
MaxEntered == 1

\* generateTemplate called again after the previous call has ended, with
\* the files as they are now.
TemplateCallAgain(a) ==
    /\ tpc \in {"returned", "refused"}
    /\ npc = "idle"
    /\ tCalls < MaxTemplateCalls
    /\ tPrev' = [args |-> tArgs, pc |-> tpc]
    /\ tCalls' = tCalls + 1
    /\ tArgs' = a
    /\ tTemperatures' = <<>>
    /\ tTemp' = 0
    /\ tKeys' = <<>>
    /\ tpc' = "ready"
    /\ UNCHANGED <<scaffolds, txtFiles>>

\* The text of a template line after its list marker.
KeyOfLine(line) == SubSeq(line, Len(KeyPrefix) + 1, Len(line))

\* Between two calls the user fills in the scaffold of the last call: the
\* keys of the first n template lines, each with a command.
EnterData(n) ==
    /\ tpc \in {"returned", "refused"}
    /\ HasOwn(scaffolds, JsonFilename(tArgs))
    /\ HasOwn(txtFiles, TxtPath(tArgs))
    /\ LET lines == GetOwn(txtFiles, TxtPath(tArgs))
           filled == PutAll(GetOwn(scaffolds, JsonFilename(tArgs)).v,
                            [i \in 1..n |-> [k |-> KeyOfLine(lines[i]), v |-> Str(<<"X">>)]])
       IN  scaffolds' = Put(scaffolds, JsonFilename(tArgs), Obj(filled))
    /\ UNCHANGED <<tArgs, txtFiles, tTemperatures, tTemp, tKeys, tpc, tCalls, tPrev>>

\* A key of the returned list, without its list marker, is handed to
\* normalizeKey (it arrives there as a key of the filled-in scaffold).
NormalizeTemplateKey(i) ==
    /\ tpc = "returned"
    /\ npc = "idle"
    /\ i \in 1..Len(tKeys)
    /\ nKey' = KeyOfLine(tKeys[i])
    /\ npc' = "call"
    /\ UNCHANGED nResult

\* The 33 temperatures of the range, as text.
TemperatureRange ==
    <<<<"1", "6">>,
      <<"1", "6", ".", "5">>,
      <<"1", "7">>,
      <<"1", "7", ".", "5">>,
      <<"1", "8">>,
      <<"1", "8", ".", "5">>,
      <<"1", "9">>,
      <<"1", "9", ".", "5">>,
      <<"2", "0">>,
      <<"2", "0", ".", "5">>,
      <<"2", "1">>,
      <<"2", "1", ".", "5">>,
      <<"2", "2">>,
      <<"2", "2", ".", "5">>,
      <<"2", "3">>,
      <<"2", "3", ".", "5">>,
      <<"2", "4">>,
      <<"2", "4", ".", "5">>,
      <<"2", "5">>,
      <<"2", "5", ".", "5">>,
      <<"2", "6">>,
      <<"2", "6", ".", "5">>,
      <<"2", "7">>,
      <<"2", "7", ".", "5">>,
      <<"2", "8">>,
      <<"2", "8", ".", "5">>,
      <<"2", "9">>,
      <<"2", "9", ".", "5">>,
      <<"3", "0">>,
      <<"3", "0", ".", "5">>,
      <<"3", "1">>,
      <<"3", "1", ".", "5">>,
      <<"3", "2">>>>

(***************************************************************************)
(* Inputs and specifications                                               *)
(***************************************************************************)
MaxKeyLen == 7
MaxEntries == 2
MaxFiles == 3
MaxFileKeys == 2
MaxBaseKeys == 2

\* Sequences over S of length at most n with pairwise different key(e).
DistinctSeqs(S, n) ==
    {q \in UNION {[1..m -> S] : m \in 0..n} :
        \A i, j \in 1..Len(q) : i # j => q[i].k # q[j].k}

CommandValues == {Str(<<"X">>), Str(<<"Y">>)}

\* ---- normalizeKey on its own
KeyAlphabet == {"a", "b", Hyphen, Underscore}
CoolOn == <<"c", "o", "o", "l", "-", "o", "n">>
AutoQuiet == <<"a", "u", "t", "o", "_", "q", "u", "i", "e", "t">>
ExampleKeys ==
    {CoolOn,
     CoolOn \o <<Hyphen>> \o AutoQuiet \o <<"-", "1", "6", ".", "5">>,
     CoolOn \o <<"-", "a", "u", "t", "o", "-", "q", "u", "i", "e", "t", "-", "1", "6">>}
NormalizeKeys == StringsUpTo(KeyAlphabet, MaxKeyLen) \cup ExampleKeys

InitNormalize ==
    /\ nKey \in NormalizeKeys /\ nResult = NoResult /\ npc = "call"
    /\ GenIdle /\ CombIdle /\ ExpIdle /\ TmplIdle

NextNormalize == NormalizeCall /\ UNCHANGED <<genVars, combVars, expVars, tmplVars>>

SpecNormalize == InitNormalize /\ [][NextNormalize]_vars

\* ---- transformJSON
\* Operating modes: an ordinary name, the reserved word, an integer-like
\* name and the two names every object inherits.  The inherited names are
\* drawn as operating mode only, so they are read on regularCommands alone.
OperatingModes == {<<"c">>, OffKey, <<"1">>, ConstructorName, ProtoName}
SwingModes == {<<"o", "n">>}
FanSegments == {<<"a", "_", "q">>, <<"a", "-", "q">>}
Temperatures == {<<"1", "6">>}
ShortKey == <<"c", "-", "o", "n">>

TransformKeys ==
    {OffKey, ShortKey} \cup
    {Join(<<op, sw, fan, t>>, <<Hyphen>>) :
        op \in OperatingModes, sw \in SwingModes, fan \in FanSegments, t \in Temperatures}

\* Object.entries(inputData): keys pairwise different; none of these keys is
\* integer-like, so the entries come in the order of the input file.
\* The i-th entry holds the value "X", "Y", "Z", ... of its position, so
\* that a leaf tells which entry wrote it.
PositionValue(i) == Str(<<(<<"X", "Y", "Z", "W">>)[i]>>)

\* Object.entries(inputData): keys pairwise different; none of these keys is
\* integer-like, so the entries come in the order of the input file.
TransformInputs ==
    {[i \in 1..Len(q) |-> [k |-> q[i], v |-> PositionValue(i)]] :
        q \in {x \in UNION {[1..m -> TransformKeys] : m \in 0..MaxEntries} :
                  \A i, j \in 1..Len(x) : i # j => x[i] # x[j]}}

InitTransform ==
    /\ \E input \in TransformInputs, meta \in BOOLEAN : GenStart(input, meta)
    /\ NormIdle /\ CombIdle /\ ExpIdle /\ TmplIdle

NextTransform ==
    \/ GenEntry /\ UNCHANGED <<normVars, combVars, expVars, tmplVars>>
    \/ GenAssemble /\ UNCHANGED <<normVars, combVars, expVars, tmplVars>>
    \/ GenCallAgain /\ UNCHANGED <<normVars, combVars, expVars, tmplVars>>

SpecTransform == InitTransform /\ [][NextTransform]_vars

\* ---- combineJSONFiles
CombineKeys == {<<"a">>, <<"b">>, HasOwnPropertyName}

\* The i-th file holds the value "i" under each of its keys, so that a
\* merged value tells which file it came from.
FileValue(i) == Str(DecimalDigits(i))

\* The key lists of a file: pairwise different keys in any order, and two
\* files that hold the key __proto__.
KeyLists ==
    {q \in UNION {[1..m -> CombineKeys] : m \in 0..MaxFileKeys} :
        \A i, j \in 1..Len(q) : i # j => q[i] # q[j]}
    \cup {<<ProtoName>>, <<(<<"a">>), ProtoName>>}

FileAt(i, c) ==
    IF ~c.readable THEN UnreadableFile
    ELSE JsonFile([j \in 1..Len(c.keys) |-> [k |-> c.keys[j], v |-> FileValue(i)]])

FileChoices ==
    {[readable |-> TRUE, keys |-> q] : q \in KeyLists}
        \cup {[readable |-> FALSE, keys |-> <<>>]}

SourceDirs ==
    {[i \in 1..Len(cs) |-> FileAt(i, cs[i])] :
        cs \in UNION {[1..m -> FileChoices] : m \in 0..MaxFiles}}

InitCombine ==
    /\ \E files \in SourceDirs : CombStart(files)
    /\ NormIdle /\ GenIdle /\ ExpIdle /\ TmplIdle

NextCombine ==
    \/ CombineNoFiles /\ UNCHANGED <<normVars, genVars, expVars, tmplVars>>
    \/ CombineBegin /\ UNCHANGED <<normVars, genVars, expVars, tmplVars>>
    \/ CombineFile /\ UNCHANGED <<normVars, genVars, expVars, tmplVars>>
    \/ CombineWrite /\ UNCHANGED <<normVars, genVars, expVars, tmplVars>>

SpecCombine == InitCombine /\ [][NextCombine]_vars

\* ---- the two scripts, each run once, one after the other in either order
BaseKeys == {<<"f">>, <<"f", "-", "1", "6">>, <<"f", "_", "o">>}
FanOnlyFiles == DistinctSeqs([k : BaseKeys, v : CommandValues], MaxBaseKeys)

TemplateArgs ==
    {[operatingMode |-> <<"c">>, swingMode |-> <<"o", "n">>, fanMode |-> <<"a">>],
     [operatingMode |-> <<"c">>, swingMode |-> <<"o", "n">>, fanMode |-> <<"a", "_", "q">>]}

ExistingScaffolds ==
    {EmptyObject} \cup
    {<<[k |-> JsonFilename(a), v |-> Obj(<<[k |-> <<"k">>, v |-> Str(<<"X">>)]>>)]>> :
        a \in TemplateArgs}

InitScripts ==
    /\ \E file \in FanOnlyFiles : ExpStart(file)
    /\ \E a \in TemplateArgs, existing \in ExistingScaffolds : TmplStart(a, existing)
    /\ NormIdle /\ GenIdle /\ CombIdle

NextScripts ==
    \/ ExpandRead /\ UNCHANGED <<normVars, genVars, combVars, tmplVars>>
    \/ ExpandTempLoop /\ UNCHANGED <<normVars, genVars, combVars, tmplVars>>
    \/ ExpandTempDone /\ UNCHANGED <<normVars, genVars, combVars, tmplVars>>
    \/ ExpandBaseKey /\ UNCHANGED <<normVars, genVars, combVars, tmplVars>>
    \/ ExpandWrite /\ UNCHANGED <<normVars, genVars, combVars, tmplVars>>
    \/ TemplateRefuse /\ UNCHANGED <<normVars, genVars, combVars, expVars>>
    \/ TemplateBegin /\ UNCHANGED <<normVars, genVars, combVars, expVars>>
    \/ TemplateTempLoop /\ UNCHANGED <<normVars, genVars, combVars, expVars>>
    \/ TemplateKeys /\ UNCHANGED <<normVars, genVars, combVars, expVars>>

SpecScripts == InitScripts /\ [][NextScripts]_vars

\* ---- generateTemplate called repeatedly, the user filling in scaffolds
\* between the calls, and the generated keys handed to normalizeKey
\* (first call: any of TemplateTriples; later calls: one of TemplateArgs)
TemplateTriples ==
    {[operatingMode |-> op, swingMode |-> <<"o", "n">>, fanMode |-> fan] :
        op \in {<<"c">>, <<"c", "-", "d">>},
        fan \in {<<"a">>, <<"a", "_", "q">>, <<"a", "-", "q">>}}
    \cup {[operatingMode |-> <<"c">>, swingMode |-> <<"o", "-", "n">>, fanMode |-> <<"a">>]}

InitTemplate ==
    /\ \E a \in TemplateTriples :
          \E existing \in {EmptyObject,
                           <<[k |-> JsonFilename(a),
                              v |-> Obj(<<[k |-> <<"k">>, v |-> Str(<<"X">>)]>>)]>>} :
              TmplStart(a, existing)
    /\ NormIdle /\ GenIdle /\ CombIdle /\ ExpIdle

NextTemplate ==
    \/ TemplateRefuse /\ UNCHANGED <<normVars, genVars, combVars, expVars>>
    \/ TemplateBegin /\ UNCHANGED <<normVars, genVars, combVars, expVars>>
    \/ TemplateTempLoop /\ UNCHANGED <<normVars, genVars, combVars, expVars>>
    \/ TemplateKeys /\ UNCHANGED <<normVars, genVars, combVars, expVars>>
    \/ \E a \in TemplateArgs :
          TemplateCallAgain(a) /\ UNCHANGED <<normVars, genVars, combVars, expVars>>
    \/ \E n \in 1..MaxEntered :
          EnterData(n) /\ UNCHANGED <<normVars, genVars, combVars, expVars>>
    \/ \E i \in 1..Len(TemperatureRange) :
          NormalizeTemplateKey(i) /\ UNCHANGED <<genVars, combVars, expVars, tmplVars>>
    \/ NormalizeCall /\ UNCHANGED <<genVars, combVars, expVars, tmplVars>>

SpecTemplate == InitTemplate /\ [][NextTemplate]_vars

\* ---- the expander run twice on the same file
MaxRerunKeys == 1
RerunFiles ==
    {[i \in 1..Len(q) |-> [k |-> q[i], v |-> PositionValue(i)]] :
        q \in {x \in UNION {[1..m -> BaseKeys] : m \in 0..MaxRerunKeys} :
                  \A i, j \in 1..Len(x) : i # j => x[i] # x[j]}}

InitRerun ==
    /\ \E file \in RerunFiles : ExpStart(file)
    /\ NormIdle /\ GenIdle /\ CombIdle /\ TmplIdle

NextRerun ==
    \/ ExpandRead /\ UNCHANGED <<normVars, genVars, combVars, tmplVars>>
    \/ ExpandTempLoop /\ UNCHANGED <<normVars, genVars, combVars, tmplVars>>
    \/ ExpandTempDone /\ UNCHANGED <<normVars, genVars, combVars, tmplVars>>
    \/ ExpandBaseKey /\ UNCHANGED <<normVars, genVars, combVars, tmplVars>>
    \/ ExpandWrite /\ UNCHANGED <<normVars, genVars, combVars, tmplVars>>
    \/ ExpandRunAgain /\ UNCHANGED <<normVars, genVars, combVars, tmplVars>>

SpecRerun == InitRerun /\ [][NextRerun]_vars

\* ---- every program of the repository
Init == InitNormalize \/ InitTransform \/ InitCombine \/ InitScripts \/ InitTemplate
            \/ InitRerun
Next == NextNormalize \/ NextTransform \/ NextCombine \/ NextScripts \/ NextTemplate
            \/ NextRerun
Spec == Init /\ [][Next]_vars

(***************************************************************************)
(* Properties                                                              *)
(***************************************************************************)
HyphenFree(s) == \A i \in 1..Len(s) : s[i] # Hyphen
SegmentCount(s) == Cardinality({i \in 1..Len(s) : s[i] = Hyphen}) + 1

CoolOnAutoQuiet165 ==
    <<"c", "o", "o", "l", "-", "o", "n", "-", "a", "u", "t", "o", "_", "q", "u", "i",
      "e", "t", "-", "1", "6", ".", "5">>
CoolOnAutoQuiet16 ==
    <<"c", "o", "o", "l", "-", "o", "n", "-", "a", "u", "t", "o", "-", "q", "u", "i",
      "e", "t", "-", "1", "6">>

\* The key is operatingMode - swingMode - middle - temperature, the three
\* outer fields hyphen-free, and fanMode is the middle with each hyphen
\* turned into an underscore.
FieldsOfKey(key, r) ==
    LET a == Len(r.operatingMode)
        b == Len(r.swingMode)
        t == Len(r.temperature)
        m == Len(key) - a - b - t - 3
        middle == SubSeq(key, a + b + 3, a + b + 2 + m)
    IN  /\ HyphenFree(r.operatingMode) /\ HyphenFree(r.swingMode)
        /\ HyphenFree(r.temperature)
        /\ m >= 0
        /\ key = r.operatingMode \o <<Hyphen>> \o r.swingMode \o <<Hyphen>>
                    \o middle \o <<Hyphen>> \o r.temperature
        /\ Len(r.fanMode) = m
        /\ \A i \in 1..m :
              r.fanMode[i] = IF middle[i] = Hyphen THEN Underscore ELSE middle[i]

\* C1: for every key of at least 4 hyphen-delimited segments normalizeKey
\* returns operatingMode = the first segment, swingMode = the second,
\* temperature = the last (text unchanged) and fanMode = the segments
\* strictly between the second and the last joined with "_";
\* "cool-on-auto_quiet-16.5" gives {cool, on, auto_quiet, 16.5}.
C1_NormalizeFields ==
    (npc # "call" /\ npc # "idle" /\ SegmentCount(nKey) >= 4) =>
        /\ npc = "returned"
        /\ nResult.status = "ok"
        /\ FieldsOfKey(nKey, nResult)
        /\ (nKey = CoolOnAutoQuiet165 =>
              /\ nResult.operatingMode = <<"c", "o", "o", "l">>
              /\ nResult.swingMode = <<"o", "n">>
              /\ nResult.fanMode = <<"a", "u", "t", "o", "_", "q", "u", "i", "e", "t">>
              /\ nResult.temperature = <<"1", "6", ".", "5">>)

\* A key of five segments has been normalized: its two middle segments
\* came back as one fan mode.
C1_Witness ==
    /\ npc = "returned"
    /\ nKey = CoolOnAutoQuiet16
    /\ nResult.fanMode = <<"a", "u", "t", "o", "_", "q", "u", "i", "e", "t">>

\* C2: normalizeKey throws the format error exactly when the key splits on
\* "-" into fewer than 4 segments; every key of 4 or more segments, empty
\* segments and unknown names included, gets a result and no error.
C2_ErrorIffFewerThanFour ==
    (npc # "call" /\ npc # "idle") =>
        /\ (npc = "thrown") <=> (SegmentCount(nKey) < 4)
        /\ (npc = "returned") <=> (SegmentCount(nKey) >= 4)
        /\ (nResult.status = "Error") <=> (npc = "thrown")

\* A key of exactly four segments, all of them empty, was accepted.
C2_Witness ==
    /\ npc = "returned"
    /\ nKey = <<Hyphen, Hyphen, Hyphen>>
    /\ nResult.temperature = <<>>

\* ---- transformJSON
Undefined == [t |-> "undefined", v |-> <<>>]

\* val[p1][p2]...[pn] over own properties, as the emitted JSON shows them.
RECURSIVE GetPath(_, _)
GetPath(val, path) ==
    IF Len(path) = 0 THEN val
    ELSE IF val.t = "object" /\ HasOwn(val.v, path[1])
    THEN GetPath(GetOwn(val.v, path[1]), Tail(path))
    ELSE Undefined

\* The paths of the string-valued leaves of a value.
RECURSIVE LeafPaths(_, _)
LeafPaths(val, prefix) ==
    IF val.t # "object" THEN {prefix}
    ELSE UNION {LeafPaths(val.v[i].v, Append(prefix, val.v[i].k)) : i \in 1..Len(val.v)}

Commands == GetOwn(output, CommandsKey)
InputHasOff == \E i \in 1..Len(inputData) : inputData[i].k = OffKey
OffValue == inputData[CHOOSE i \in 1..Len(inputData) : inputData[i].k = OffKey].v

Normalizes(key) == key # OffKey /\ SegmentCount(key) >= 4
PathOf(key) ==
    LET n == normalizeKey(key)
    IN  <<n.operatingMode, n.fanMode, n.swingMode, n.temperature>>
\* The input positions whose key normalizes to the path p.
Sources(p) ==
    {i \in 1..Len(inputData) : Normalizes(inputData[i].k) /\ PathOf(inputData[i].k) = p}
Last(S) == CHOOSE i \in S : \A j \in S : j <= i

\* C3: after transformJSON, for every key other than "off" that normalizes,
\* commands[operatingMode][fanMode][swingMode][temperature] holds the value
\* of the last input key that normalizes to that path, and the tree has no
\* leaf that does not come from such a key (the reserved "off" entry apart).
C3_TreeHoldsLastValue ==
    gpc = "done" =>
        /\ \A i \in 1..Len(inputData) :
              Normalizes(inputData[i].k) =>
                  GetPath(Commands, PathOf(inputData[i].k))
                      = inputData[Last(Sources(PathOf(inputData[i].k)))].v
        /\ \A p \in LeafPaths(Commands, <<>>) :
              \/ p = <<OffKey>> /\ InputHasOff
              \/ Sources(p) # {}

\* C4: whenever the input has the key "off", "off" is the first key of the
\* emitted commands object, wherever it stands in the input and whatever
\* the other keys are.
C4_OffIsFirstKey ==
    (gpc = "done" /\ InputHasOff) => Keys(Commands.v)[1] = OffKey

\* C5: whenever the input has the key "off", the emitted commands.off is the
\* input's value for "off", unchanged, whatever the other keys are, keys
\* whose first segment is "off" included.
C5_OffValueCarriedThrough ==
    (gpc = "done" /\ InputHasOff) => GetPath(Commands, <<OffKey>>) = OffValue

\* The input with the keys that fail normalization removed.
IsInvalid(e) == e.k # OffKey /\ normalizeKey(e.k).status = "Error"
IsValid(e) == ~IsInvalid(e)
ValidEntries(input) == SelectSeq(input, IsValid)
InvalidKeys(input) == Keys(SelectSeq(input, IsInvalid))

\* The built-in objects as the call under way found them: untouched for
\* the first call of a process, as the first call left them for the second.
FirstCall == transformJSON(inputData, includeMetadata, EmptyObject, EmptyObject)
StartProto == IF gCall = 1 THEN EmptyObject ELSE FirstCall.proto
StartCtor == IF gCall = 1 THEN EmptyObject ELSE FirstCall.ctor

\* C13: a key that fails normalization is reported and skipped without
\* aborting: the result is exactly the one built from the same input with
\* the invalid keys removed, the invalid keys are reported one by one in
\* input order, and every leaf the valid keys place is in the tree.
C13_InvalidKeysSkipped ==
    gpc = "done" =>
        LET filtered == transformJSON(ValidEntries(inputData), includeMetadata,
                                      StartProto, StartCtor)
        IN  /\ output = filtered.output
            /\ skipped = InvalidKeys(inputData)
            /\ filtered.skipped = <<>>
            /\ LeafPaths(GetOwn(filtered.output, CommandsKey), <<>>)
                   = LeafPaths(Commands, <<>>)

\* An invalid key stood before a valid one: it was reported and the valid
\* key after it has its leaf.
C13_Witness ==
    /\ gpc = "done"
    /\ Len(inputData) = 2
    /\ inputData[1].k = ShortKey
    /\ skipped = <<ShortKey>>
    /\ Normalizes(inputData[2].k)
    /\ GetPath(Commands, PathOf(inputData[2].k)) = inputData[2].v

\* C14: transformJSON is deterministic: a second call with the same flat
\* mapping returns a tree identical to the first (same keys at every level,
\* same key order, same leaf values).
C14_SecondCallSameTree ==
    (gpc = "done" /\ gCall = 2) => output = firstOutput

\* C15: requesting metadata changes only the sibling fields: the commands
\* tree is the one the same call builds without metadata, the metadata
\* fields precede "commands", and a key whose operating, fan or swing mode
\* is not in the metadata lists still has its leaf in the tree.
InList(name, list) == \E i \in 1..Len(list) : list[i] = name
Unlisted(key) ==
    LET n == normalizeKey(key)
    IN  \/ ~InList(n.operatingMode, OperationModeList)
        \/ ~InList(n.fanMode, FanModeList)
        \/ ~InList(n.swingMode, SwingModeList)
C15_MetadataOnlyAddsSiblings ==
    gpc = "done" =>
        /\ Commands = GetOwn(transformJSON(inputData, ~includeMetadata,
                                           StartProto, StartCtor).output, CommandsKey)
        /\ Keys(output) = (IF includeMetadata THEN Keys(Metadata) ELSE <<>>) \o <<CommandsKey>>
        /\ \A i \in 1..Len(inputData) :
              (Normalizes(inputData[i].k) /\ Unlisted(inputData[i].k)) =>
                  GetPath(Commands, PathOf(inputData[i].k)) # Undefined

\* ---- combineJSONFiles
ParsedFiles == {i \in 1..Len(srcFiles) : srcFiles[i].parsed}
FileKeys(i) == KeySet(srcFiles[i].entries)
\* The parsed files that hold the key k.
Holders(k) == {i \in ParsedFiles : k \in FileKeys(i)}
\* (file, key) pairs where a parsed file brings a key an earlier one brought.
Overwrites ==
    {<<i, k>> \in ParsedFiles \X UNION {FileKeys(i) : i \in ParsedFiles} :
        k \in FileKeys(i) /\ \E j \in Holders(k) : j < i}
WarningsFor(i, k) ==
    {w \in 1..Len(warnings) : warnings[w] = [key |-> k, file |-> i]}

RECURSIVE KeysRead(_)
KeysRead(n) == IF n = 0 THEN 0
               ELSE KeysRead(n - 1)
                        + (IF srcFiles[n].parsed THEN Len(srcFiles[n].entries) ELSE 0)

\* C6: combineJSONFiles merges left to right: the merged key set is the
\* union of the keys of the parsed files, each key holds the value of the
\* last file containing it, and exactly one duplicate-key warning, naming
\* the key and the overwriting file, is emitted per overwrite.
C6_MergeIsLastWriteWins ==
    cpc = "done" =>
        /\ KeySet(combined) = UNION {FileKeys(i) : i \in ParsedFiles}
        /\ \A k \in KeySet(combined) :
              Holders(k) # {} /\ GetOwn(combined, k) = FileValue(Last(Holders(k)))
        /\ Len(warnings) = Cardinality(Overwrites)
        /\ \A ik \in Overwrites : Cardinality(WarningsFor(ik[1], ik[2])) = 1

\* C7: the reported total is the sum of the key counts of the parsed files,
\* overwritten keys counted; so total = keys of the merged mapping +
\* duplicate-key warnings.
C7_TotalCountsEveryKeyRead ==
    cpc = "done" =>
        /\ totalKeys = KeysRead(Len(srcFiles))
        /\ totalKeys = Len(combined) + Len(warnings)

\* C8: a file that fails to read or parse is reported and skipped: the
\* iteration leaves the merged mapping, the warnings and the total as they
\* were and moves to the next file; at the end every file has been visited,
\* every unreadable one reported, and the merged mapping written out.
C8_UnreadableFileSkipped ==
    /\ [][(cpc = "loop" /\ fileIdx <= Len(srcFiles) /\ ~srcFiles[fileIdx].parsed) =>
            /\ combined' = combined
            /\ totalKeys' = totalKeys
            /\ warnings' = warnings
            /\ errors' = Append(errors, fileIdx)
            /\ fileIdx' = fileIdx + 1
            /\ cpc' = "loop"]_vars
    /\ [](cpc = "done" =>
            /\ fileIdx = Len(srcFiles) + 1
            /\ \A i \in 1..Len(srcFiles) :
                  ~srcFiles[i].parsed => \E e \in 1..Len(errors) : errors[e] = i
            /\ combinedFile = combined)

\* An unreadable file stood between two readable ones; both were merged
\* and the result was written.
C8_Witness ==
    /\ cpc = "done"
    /\ Len(srcFiles) = 3
    /\ srcFiles[1].parsed /\ ~srcFiles[2].parsed /\ srcFiles[3].parsed
    /\ errors = <<2>>
    /\ totalKeys = 2
    /\ Keys(combinedFile) = <<(<<"a">>), (<<"b">>)>>

\* ---- the fan-only expander and the temperature series
\* The positions (entry of the input, temperature of the range) and the
\* expanded key expected at each.
ExpansionPoints == (1..Len(data)) \X (1..Len(TemperatureRange))
ClaimedKey(pt) == data[pt[1]].k \o <<Hyphen>> \o TemperatureRange[pt[2]]

\* C9: the expander's output has exactly (input entries) x 33 entries: for
\* each base key k with value v and each temperature t of the range an
\* entry "k-t" with value v unchanged, no two expanded keys the same, and
\* no other entry.
C9_ExpanderOutput ==
    epc = "done" =>
        /\ Len(TemperatureRange) = 33
        /\ Len(fanOnlyFile) = Len(data) * 33
        /\ \A pt \in ExpansionPoints :
              /\ HasOwn(fanOnlyFile, ClaimedKey(pt))
              /\ GetOwn(fanOnlyFile, ClaimedKey(pt)) = data[pt[1]].v
        /\ Cardinality({ClaimedKey(pt) : pt \in ExpansionPoints})
              = Cardinality(ExpansionPoints)
        /\ \A j \in 1..Len(fanOnlyFile) :
              \E pt \in ExpansionPoints : fanOnlyFile[j].k = ClaimedKey(pt)

\* Two base keys, one of them ending in "-16", were expanded and written.
C9_Witness ==
    /\ epc = "done"
    /\ Len(data) = 2
    /\ \E i \in 1..2 : data[i].k = <<"f", "-", "1", "6">>
    /\ Len(fanOnlyFile) = 66

\* The strings the expander's template literal renders for its temperatures.
ExpanderSeries == [i \in 1..Len(eTemperatures) |-> NumberToString(eTemperatures[i])]

\* C10: the temperature series of generateTemplate and that of the fan-only
\* expander are the same ordered sequence of 33 strings "16", "16.5", "17",
\* ..., "32": whole degrees without ".0", half degrees with one decimal.
C10_SameTemperatureSeries ==
    /\ Len(TemperatureRange) = 33
    /\ TemperatureRange[1] = <<"1", "6">>
    /\ TemperatureRange[2] = <<"1", "6", ".", "5">>
    /\ TemperatureRange[33] = <<"3", "2">>
    /\ (tpc = "returned" => tTemperatures = TemperatureRange)
    /\ (epc \in {"expand", "done"} => ExpanderSeries = TemperatureRange)
    /\ ((tpc = "returned" /\ epc = "done") => tTemperatures = ExpanderSeries)
    /\ ((epc = "done" /\ Len(data) >= 1) =>
            \A t \in 1..33 :
                fanOnlyFile[t].k = data[1].k \o <<Hyphen>> \o TemperatureRange[t])
    /\ (tpc = "returned" =>
            \A t \in 1..33 :
                tKeys[t] = KeyPrefix \o Join(<<tArgs.operatingMode, tArgs.swingMode,
                                               tArgs.fanMode>>, <<Hyphen>>)
                               \o <<Hyphen>> \o TemperatureRange[t])

\* Both scripts have run: the template holds "16.5" second and the expander
\* wrote its keys.
C10_Witness ==
    /\ tpc = "returned"
    /\ epc = "done"
    /\ Len(data) >= 1
    /\ tTemperatures[2] = <<"1", "6", ".", "5">>
    /\ fanOnlyFile[2].k = data[1].k \o <<"-", "1", "6", ".", "5">>

\* ---- generateTemplate
FlatKey(a, t) == Join(<<a.operatingMode, a.swingMode, a.fanMode, t>>, <<Hyphen>>)
Scaffold(a) == GetOwn(scaffolds, JsonFilename(a))

\* C11 as the specification states it: with no scaffold for the triple,
\* generateTemplate returns exactly 33 keys, the i-th being exactly
\* "{operatingMode}-{swingMode}-{fanMode}-{t_i}", and creates an empty
\* mapping as the scaffold.
C11_KeysAreFlatKeys ==
    tpc = "returned" =>
        /\ Len(tKeys) = 33
        /\ \A i \in 1..Len(tKeys) : tKeys[i] = FlatKey(tArgs, TemperatureRange[i])
        /\ HasOwn(scaffolds, JsonFilename(tArgs))

\* C11 amended: with no scaffold for the triple, generateTemplate returns
\* exactly 33 keys in ascending temperature order, the i-th being the list
\* marker "- " followed by "{operatingMode}-{swingMode}-{fanMode}-{t_i}";
\* the step that returns them creates an empty mapping as the scaffold of
\* the triple, and a call that finds no scaffold is never refused.
C11_KeysAreMarkedFlatKeys ==
    /\ [](tpc = "returned" =>
            /\ Len(tKeys) = 33
            /\ \A i \in 1..Len(tKeys) :
                  tKeys[i] = <<"-", " ">> \o FlatKey(tArgs, TemperatureRange[i]))
    /\ [][(tpc = "ready" /\ ~HasOwn(scaffolds, JsonFilename(tArgs)) /\ tpc' # tpc) =>
            tpc' = "temps"]_vars
    /\ [][(tpc = "temps" /\ tpc' = "returned") =>
            /\ ~HasOwn(scaffolds, JsonFilename(tArgs))
            /\ HasOwn(scaffolds', JsonFilename(tArgs))
            /\ GetOwn(scaffolds', JsonFilename(tArgs)) = Obj(EmptyObject)]_vars

\* A call that found no scaffold has returned its 33 keys and left the
\* empty scaffold.
C11_Witness ==
    /\ tpc = "returned"
    /\ Len(tKeys) = 33
    /\ tKeys[2] = <<"-", " ", "c", "-", "o", "n", "-", "a", "_", "q", "-", "1", "6", ".", "5">>
    /\ Scaffold(tArgs) = Obj(EmptyObject)

\* C12: if the scaffold of the triple exists, generateTemplate refuses: it
\* returns no result and leaves the scaffold and every other file as they
\* were; of two consecutive calls with the same triple the second is
\* refused, so what was entered into the scaffold in between is kept.
C12_ExistingScaffoldRefused ==
    /\ [][(tpc = "ready" /\ HasOwn(scaffolds, JsonFilename(tArgs)) /\ tpc' # tpc) =>
            /\ tpc' = "refused"
            /\ tKeys' = <<>>
            /\ scaffolds' = scaffolds
            /\ txtFiles' = txtFiles
            /\ fanOnlyFile' = fanOnlyFile
            /\ combinedFile' = combinedFile]_vars
    /\ []((tCalls >= 2 /\ tPrev.args = tArgs /\ tpc # "ready") => tpc = "refused")

\* The first call created the scaffold, the user entered a command, and the
\* second call with the same triple was refused with the command in place.
C12_Witness ==
    /\ tCalls = 2
    /\ tPrev = [args |-> tArgs, pc |-> "returned"]
    /\ tpc = "refused"
    /\ tKeys = <<>>
    /\ Len(Scaffold(tArgs).v) = 1
    /\ Scaffold(tArgs).v[1].k = FlatKey(tArgs, TemperatureRange[1])

\* C17: a key made by the template generator from a triple without "-" and
\* a temperature of the range normalizes to exactly that triple and
\* temperature; when the fan mode contains "-", the fan mode normalizeKey
\* returns differs from it.
C17_TemplateKeyRoundTrip ==
    (tpc = "returned" /\ npc # "idle") =>
        \E i \in 1..Len(TemperatureRange) :
            /\ nKey = FlatKey(tArgs, TemperatureRange[i])
            /\ LET r == normalizeKey(nKey)
               IN  /\ npc \in {"returned", "thrown"} => nResult = r
                   /\ (HyphenFree(tArgs.operatingMode) /\ HyphenFree(tArgs.swingMode)
                           /\ HyphenFree(tArgs.fanMode)) =>
                          r = [status |-> "ok",
                               operatingMode |-> tArgs.operatingMode,
                               swingMode |-> tArgs.swingMode,
                               fanMode |-> tArgs.fanMode,
                               temperature |-> TemperatureRange[i]]
                   /\ ~HyphenFree(tArgs.fanMode) =>
                          (r.status = "ok" /\ r.fanMode # tArgs.fanMode)

\* The key of 16.5 generated for (c, on, a_q) came back from normalizeKey
\* as the triple and the temperature it was made from.
C17_Witness ==
    /\ tpc = "returned"
    /\ npc = "returned"
    /\ tArgs = [operatingMode |-> <<"c">>, swingMode |-> <<"o", "n">>,
                fanMode |-> <<"a", "_", "q">>]
    /\ nKey = <<"c", "-", "o", "n", "-", "a", "_", "q", "-", "1", "6", ".", "5">>
    /\ nResult = [status |-> "ok", operatingMode |-> <<"c">>, swingMode |-> <<"o", "n">>,
                  fanMode |-> <<"a", "_", "q">>, temperature |-> <<"1", "6", ".", "5">>]

\* ---- the expander run twice
\* "k-t" and "k-t-t'" for the i-th and j-th temperature of the range.
OnceExpanded(k, i) == k \o <<Hyphen>> \o TemperatureRange[i]
TwiceExpanded(k, i, j) == OnceExpanded(k, i) \o <<Hyphen>> \o TemperatureRange[j]
RangeIndex == 1..Len(TemperatureRange)

\* C16: the expander reads and writes the same file and takes the keys of
\* its own output for base keys: the second run reads the "k-t" entries the
\* first run wrote, and leaves (original entries) x 33 x 33 entries, one
\* "k-t-t'" for every original key k and temperatures t, t' with the value
\* of k; for a file with entries the second run changes the file again.
C16_SecondRunExpandsAgain ==
    (eRerun /\ epc = "done") =>
        /\ Len(data) = Len(eOriginal) * 33
        /\ \A n \in 1..Len(eOriginal), i \in RangeIndex :
              HasOwn(data, OnceExpanded(eOriginal[n].k, i))
        /\ Len(fanOnlyFile) = Len(eOriginal) * 33 * 33
        /\ \A n \in 1..Len(eOriginal), i \in RangeIndex, j \in RangeIndex :
              /\ HasOwn(fanOnlyFile, TwiceExpanded(eOriginal[n].k, i, j))
              /\ GetOwn(fanOnlyFile, TwiceExpanded(eOriginal[n].k, i, j)) = eOriginal[n].v
        /\ Len(eOriginal) > 0 => fanOnlyFile # data

\* The file {"f": ...} after two runs: 1089 entries, "f-16.5-32" among them.
C16_Witness ==
    /\ eRerun
    /\ epc = "done"
    /\ Keys(eOriginal) = <<(<<"f">>)>>
    /\ Len(fanOnlyFile) = 1089
    /\ HasOwn(fanOnlyFile, <<"f", "-", "1", "6", ".", "5", "-", "3", "2">>)

====
